---- MODULE Spec2Model ----
(***************************************************************************)
(* Tax-unit construction of cpsrets.py (class Returns): the per-household  *)
(* driver computation(), the unit constructor create(), the dependency     *)
(* engine (relation, ifdept, addept, must_file), the reconciliation pass   *)
(* search() with its merge convert(), the filing-status classifier         *)
(* (hhstatus, filst) and the output reconciler output().                   *)
(*                                                                         *)
(* One behaviour processes one household: Init draws the household's       *)
(* person records from bounded sets, the actions follow the statements of  *)
(* computation() for that household.  Python indices (positions in the     *)
(* household list and in house_units) are kept 0-based, as the code stores *)
(* them in the dep<i> slots; HouseAt and UnitAt translate to TLA+'s        *)
(* 1-based sequences.  Money is integral; a ratio test a / b < c is        *)
(* written as the equivalent integer inequality.                           *)
(*                                                                         *)
(* Fields of a person or unit that no statement of the class reads after   *)
(* writing them (CPS identifiers, the z* evaluation fields, agi, blindness *)
(* and schedule indicators, insurance fields, oldest/youngest) are left    *)
(* out of the records.                                                     *)
(***************************************************************************)
EXTENDS Integers, Sequences, FiniteSets, TLC

VARIABLES
    house,        \* house_dicts: the household's person records, by a_lineno
    house_units,  \* self.house_units: units built for this household
    nunits,       \* self.nunits
    tax_units,    \* self.tax_units: emitted output records
    pc,           \* position of computation() in its loop body
    idx,          \* 1-based position of the driver's loop (person or unit)
    idxhigh,      \* search(): 0-based index of the top-income unit
    highest,      \* search(): that unit's total income
    scan_ix,      \* search(): ix, 0-based index of the unit under examination
    convert1,     \* search(): convert1 as evaluated at the top of the body
    run,          \* computation() calls begun on this Returns instance
    files,        \* createcps(): the files present under data/
    stage,        \* createcps(): its position
    rets,         \* createcps(): Returns objects built so far
    calls         \* values returned by the ifdept() calls made on one pair

\* the state outside computation()
outside == <<files, stage, rets, calls>>

vars == <<house, house_units, nunits, tax_units, pc, idx, idxhigh, highest,
          scan_ix, convert1, run, outside>>

(***************************************************************************)
(* Bounds of the model.                                                    *)
(***************************************************************************)
MaxPersons == 3
\* ifdept() calls made on one (person, unit) pair
MaxCalls == 2
\* computation() calls made on one Returns instance
MaxRuns == 2
\* members of a household besides its first
MaxOthers == 7

(***************************************************************************)
(* Program constants.                                                      *)
(***************************************************************************)
depwages == 0
depTotal == 1000
single == 10150
single65 == 11700
hoh == 13050
hoh65 == 14600
joint == 20300
joint65one == 21500
joint65both == 22700
wage1 == 1000
wage2 == 250
wage2nk == 10000
wage3 == 1
depExempt == 3950
\* slot columns initialised by create() and copied by output(): np.arange(15) + 1
NSlots == 15
\* unit['ages'] = np.nan: "no spouse age".  Every comparison with nan is false
\* in Python; Lt/Le/Ge below give that, and nan is no age of the input.
NaN == -1

Lt(a, b) == a # NaN /\ b # NaN /\ a < b
Le(a, b) == a # NaN /\ b # NaN /\ a <= b
Ge(a, b) == a # NaN /\ b # NaN /\ a >= b

BenKinds == {"ssi", "vb", "snap", "mcare", "mcaid", "ss", "tanf", "ui",
             "housing", "wic"}

HouseAt(h, i) == h[i + 1]
UnitAt(hu, i) == hu[i + 1]

RECURSIVE SumSeq(_, _)
SumSeq(f, n) == IF n = 0 THEN 0 ELSE f[n] + SumSeq(f, n - 1)

(***************************************************************************)
(* add_benefit reads person[b]; for 'ss' the column is ss_val_y, for the   *)
(* others the program's *_impute / MedicareX / MedicaidX column.           *)
(***************************************************************************)
PersonBen(person, k) == IF k = "ss" THEN person.ss_val_y ELSE person.ben[k]

ZeroSlot == [prob |-> [k \in BenKinds |-> 0], val |-> [k \in BenKinds |-> 0]]

\* unit['<K>_PROB<pos>'], unit['<K>_VAL<pos>']: create() sets columns
\* 1..NSlots to 0; a later position exists only once it was written.
SlotDefined(unit, pos) == pos \in DOMAIN unit.slots \/ pos \in 1..NSlots
SlotAt(unit, pos) ==
    IF pos \in DOMAIN unit.slots THEN unit.slots[pos] ELSE ZeroSlot

\* check_age with the first bracket starting at age 0
check_ageFromZero(record, age, dependent) ==
    IF Le(0, age) /\ Lt(age, 18) THEN
        IF dependent THEN
            [record EXCEPT
                !.nu18 = @ + 1,
                !.EIC = @ + 1,
                !.nu18_dep = @ + 1,
                !.nu05 = IF age <= 5 THEN @ + 1 ELSE @,
                !.nu13 = IF age > 5 /\ age <= 13 THEN @ + 1 ELSE @,
                !.f2441 = IF age > 5 /\ age <= 13 THEN @ + 1 ELSE @,
                !.n24 = IF 0 < age /\ age <= 17 THEN @ + 1 ELSE @]
        ELSE [record EXCEPT !.nu18 = @ + 1]
    ELSE IF Le(18, age) /\ Le(age, 20) THEN [record EXCEPT !.n1820 = @ + 1]
    ELSE IF Ge(age, 21) THEN
        [record EXCEPT
            !.n21 = @ + 1,
            !.elderly_dependent = IF age >= 65 /\ dependent THEN @ + 1 ELSE @]
    ELSE record

check_age(record, age, dependent) ==
    IF Lt(0, age) /\ Lt(age, 18) THEN
        IF dependent THEN
            [record EXCEPT
                !.nu18 = @ + 1,
                !.EIC = @ + 1,
                !.nu18_dep = @ + 1,
                !.nu05 = IF age <= 5 THEN @ + 1 ELSE @,
                !.nu13 = IF age > 5 /\ age <= 13 THEN @ + 1 ELSE @,
                !.f2441 = IF age > 5 /\ age <= 13 THEN @ + 1 ELSE @,
                !.n24 = IF 0 < age /\ age <= 17 THEN @ + 1 ELSE @]
        ELSE [record EXCEPT !.nu18 = @ + 1]
    ELSE IF Le(18, age) /\ Le(age, 20) THEN [record EXCEPT !.n1820 = @ + 1]
    ELSE IF Ge(age, 21) THEN
        [record EXCEPT
            !.n21 = @ + 1,
            !.elderly_dependent = IF age >= 65 /\ dependent THEN @ + 1 ELSE @]
    ELSE record

totincx(unit) ==
    unit.was + unit.intst + unit.dbe + unit.alimony + unit.bil
    + unit.pensions + unit.rents + unit.fil + unit.ucomp + unit.socsec

gen(code) ==
    CASE code = 5 -> -1
      [] code = 7 -> -2
      [] code = 8 -> 1
      [] code = 9 -> 0
      [] code = 11 -> -1
      [] OTHER -> 99

relation(person, record) ==
    LET genref == gen(record.relcode)
        genind == gen(person.a_exprrp)
    IN IF genref # 99 /\ genind # 99 THEN genind - genref ELSE 99

ifdept_income(person) ==
    person.wsal_val + person.semp_val + person.frse_val + person.uc_val
    + person.ss_val_y + person.rtm_val + person.int_val + person.int_val
    + person.div_val + person.rnt_val + person.alm_val

\* ifdept with the support test passing at exactly one half as well
ifdeptHalfPasses(person, record) ==
    LET age == person.a_age
        income == ifdept_income(person)
        related == relation(person, record)
        test4 == \/ income <= 2500
                 \/ /\ (person.a_exprrp = 5 \/ related = -1)
                    /\ (age <= 18 \/ (age <= 23 /\ person.a_enrlw > 0))
        totinc == totincx(record)
        test5 == IF totinc + income > 0
                 THEN 2 * income <= totinc + income
                 ELSE TRUE
    IN test4 /\ test5

ifdept(person, record) ==
    LET age == person.a_age
        income == ifdept_income(person)
        related == relation(person, record)
        test4 == \/ income <= 2500
                 \/ /\ (person.a_exprrp = 5 \/ related = -1)
                    /\ (age <= 18 \/ (age <= 23 /\ person.a_enrlw > 0))
        totinc == totincx(record)
        test5 == IF totinc + income > 0
                 THEN 2 * income < totinc + income
                 ELSE TRUE
    IN test4 /\ test5

\* ifdept as a call with the same effects, but writing its verdict into
\* the person as addept does
ifdept_callFlagging(person, record) ==
    [ret |-> ifdept(person, record),
     person |-> [person EXCEPT !.d_flag = ifdept(person, record)],
     record |-> record]

\* One call self.ifdept(person, record): the value returned and the states
\* the call leaves its two arguments in.  Lines 902-929 assign to locals
\* only (test1..test5, dflag, age, income, related, totinc, dtest);
\* relation() and totincx() are static and read their arguments.
ifdept_call(person, record) ==
    [ret |-> ifdept(person, record), person |-> person, record |-> record]

add_benefit(person, unit, pos) ==
    [unit EXCEPT
        !.ben = [k \in BenKinds |-> @[k] + PersonBen(person, k)],
        !.slots = (pos :> [prob |-> person.prob,
                           val |-> [k \in BenKinds |-> PersonBen(person, k)]])
                  @@ @]

\* addept without its call of check_age
addeptWithoutCheckAge(person, record, p_index) ==
    LET r1 == [record EXCEPT !.depne = @ + 1]
        depne == r1.depne
        r2 == [r1 EXCEPT !.dep = (depne :> p_index) @@ @]
        r4 == [r2 EXCEPT !.depage = (depne :> person.a_age) @@ @]
        r5 == add_benefit(person, r4, r4.ben_number)
    IN [r5 EXCEPT !.ben_number = @ + 1]

\* addept's effect on the unit; its person['d_flag'] = True is applied to
\* the household by DepScan, which holds the list.
addept(person, record, p_index) ==
    LET r1 == [record EXCEPT !.depne = @ + 1]
        depne == r1.depne
        r2 == [r1 EXCEPT !.dep = (depne :> p_index) @@ @]
        r3 == check_age(r2, person.a_age, TRUE)
        r4 == [r3 EXCEPT !.depage = (depne :> person.a_age) @@ @]
        r5 == add_benefit(person, r4, r4.ben_number)
    IN [r5 EXCEPT !.ben_number = @ + 1]

must_file(record) ==
    LET wages == record.wsal_val
        income == wages + record.semp_val + record.frse_val + record.uc_val
                  + record.ss_val + record.rtm_val + record.int_val
                  + record.div_val + record.rnt_val + record.alm_val
    IN wages > depwages \/ income > depTotal

(***************************************************************************)
(* create(record, house)                                                   *)
(***************************************************************************)
ms_type(record) == IF record.a_maritl \in {1, 2, 3} THEN 2 ELSE 1

\* the members the loop "locate spouse's record" accepts
SpouseMatches(record, h) ==
    {i \in 1..Len(h) : /\ h[i].a_lineno = record.a_spouse
                       /\ h[i].a_spouse = record.a_lineno}

\* the loop breaks at the first match
SpouseIndex(record, h) ==
    CHOOSE i \in SpouseMatches(record, h) :
        \A j \in SpouseMatches(record, h) : i <= j

\* Whether the body of "if unit['sp_ptr'] != 0" folds a spouse in.
FoldsSpouse(record) == ms_type(record) = 2 /\ record.a_spouse # 0

\* The local name spouse is bound only by a match of the loop, which runs
\* only for ms_type 2; it is read when sp_ptr != 0 (unit['ages'] =
\* spouse['a_age'] for ms_type 2, unit['hi_spouse'] = spouse['hi'] for any
\* ms_type).  Reading it unbound raises UnboundLocalError.
CreateRaises(record, h) ==
    /\ record.a_spouse # 0
    /\ (ms_type(record) = 1 \/ SpouseMatches(record, h) = {})

NewUnit(record) ==
    check_age(
        [a_lineno |-> record.a_lineno,
         flag |-> TRUE,
         h_flag |-> TRUE,
         ifdept |-> record.d_flag,
         zifdep |-> record.d_flag,
         xfid |-> record.ffpos,
         was |-> record.wsal_val, wasp |-> record.wsal_val, wass |-> 0,
         intst |-> record.int_val,
         dbe |-> record.div_val,
         alimony |-> record.alm_val,
         bil |-> record.semp_val,
         pensions |-> record.rtm_val,
         rents |-> record.rnt_val,
         fil |-> record.frse_val,
         ucomp |-> record.uc_val,
         socsec |-> record.ss_val,
         ms_type |-> ms_type(record),
         sp_ptr |-> record.a_spouse,
         relcode |-> record.a_exprrp,
         ftype |-> record.ftype,
         ageh |-> record.a_age,
         agede |-> IF record.a_age >= 65 THEN 1 ELSE 0,
         ages |-> NaN,
         nu05 |-> 0, nu13 |-> 0, nu18_dep |-> 0, nu18 |-> 0, n1820 |-> 0,
         n21 |-> 0, elderly_dependent |-> 0, f2441 |-> 0, EIC |-> 0,
         n24 |-> 0,
         depne |-> 0,
         js |-> IF ms_type(record) = 1 THEN 1 ELSE 2,
         ben |-> [k \in BenKinds |-> 0],
         slots |-> <<>>,
         ben_number |-> 0,
         dep |-> <<>>,
         depage |-> <<>>,
         t_flag |-> FALSE],
        record.a_age, FALSE)

\* lines 284-325: the spouse's age and income streams added to the unit
fold_spouse(unit, spouse) ==
    LET u1 == [unit EXCEPT !.ages = spouse.a_age,
                           !.agede = IF spouse.a_age >= 65 THEN @ + 1 ELSE @]
        u2 == check_age(u1, u1.ages, FALSE)
    IN [u2 EXCEPT
           !.wass = spouse.wsal_val,
           !.was = @ + spouse.wsal_val,
           !.intst = @ + spouse.int_val,
           !.dbe = @ + spouse.div_val,
           !.alimony = @ + spouse.alm_val,
           !.bil = @ + spouse.semp_val,
           !.pensions = @ + spouse.rtm_val,
           !.rents = @ + spouse.rnt_val,
           !.fil = @ + spouse.frse_val,
           !.ucomp = @ + spouse.uc_val,
           !.socsec = @ + spouse.ss_val_y]

\* lines 601-603: the member at position i is examined as a dependent of the
\* unit headed by the member at position r.  house.index() finds a member's
\* own position: the line numbers of a household are distinct.
\* the test without its "not idxdep"
DepCandidateFlagged(person, i, r, unit) ==
    /\ i # r
    /\ person.ffpos = unit.xfid
    /\ ~person.s_flag
    /\ ~person.h_flag

DepCandidate(person, i, r, unit) ==
    /\ i # r
    /\ person.ffpos = unit.xfid
    /\ ~person.d_flag
    /\ ~person.s_flag
    /\ ~person.h_flag

\* lines 589-607: the scan over the household, from position i on
RECURSIVE DepScan(_, _, _, _)
DepScan(i, r, unit, h) ==
    IF i > Len(h) THEN [unit |-> unit, house |-> h]
    ELSE IF DepCandidate(h[i], i, r, unit) /\ ifdept(h[i], unit)
         THEN DepScan(i + 1, r, addept(h[i], unit, i - 1),
                      [h EXCEPT ![i].d_flag = TRUE])
         ELSE DepScan(i + 1, r, unit, h)

\* create(house[r], house) where it does not raise: the unit it returns and
\* the household with the flags it set
create(r, h) ==
    LET record == h[r]
        u0 == NewUnit(record)
        folds == FoldsSpouse(record)
        s == SpouseIndex(record, h)
        u1 == IF folds THEN fold_spouse(u0, h[s]) ELSE u0
        h1 == IF folds THEN [h EXCEPT ![s].s_flag = TRUE] ELSE h
        u2 == add_benefit(record, u1, 1)
        u3 == IF record.a_spouse # 0 THEN add_benefit(h[s], u2, 2) ELSE u2
        u4 == [u3 EXCEPT !.ben_number = 3]
        scanned == DepScan(1, r, u4, h1)
    IN [unit |-> [scanned.unit EXCEPT !.t_flag = TRUE],
        house |-> scanned.house]

(***************************************************************************)
(* hhstatus(unit): the loop "for unit in self.house_units" rebinds the     *)
(* parameter, so after it unit is the last unit of house_units (the unit   *)
(* passed, at 0-based position k, only when the list is empty).            *)
(***************************************************************************)
HouseholdIncome(hu) == SumSeq([i \in 1..Len(hu) |-> totincx(hu[i])], Len(hu))

hhstatus(hu, k) ==
    LET income == HouseholdIncome(hu)
        u == IF Len(hu) > 0 THEN Len(hu) ELSE k + 1
        totinc == totincx(hu[u])
    IN IF /\ income > 0
          /\ hu[u].js = 1
          /\ 100 * totinc > 99 * income
          /\ hu[u].ifdept # TRUE
          /\ hu[u].depne > 0
       THEN [hu EXCEPT ![u].js = 3]
       ELSE hu

\* map(self.hhstatus, self.house_units), evaluated: hhstatus on each unit in
\* order, from 0-based position k on
RECURSIVE MapHhstatus(_, _)
MapHhstatus(hu, k) ==
    IF k >= Len(hu) THEN hu ELSE MapHhstatus(hhstatus(hu, k), k + 1)

(***************************************************************************)
(* convert(ix, iy), statement by statement; search() calls it with         *)
(* ix # iy only.                                                           *)
(***************************************************************************)
\* lines 828-837: the source's slots 1..ixdeps copied behind iybgin
RECURSIVE MoveDeps(_, _, _, _, _, _)
MoveDeps(hu, ix, iy, iybgin, ndeps, ixdeps) ==
    IF ndeps > ixdeps THEN hu
    ELSE LET a == [hu EXCEPT ![iy + 1].dep =
                       ((iybgin + ndeps) :> hu[ix + 1].dep[ndeps]) @@ @]
             b == [a EXCEPT ![ix + 1].dep = ((iybgin + ndeps) :> 0) @@ @]
             c == [b EXCEPT ![iy + 1].depage =
                       ((iybgin + ndeps) :> b[ix + 1].depage[ndeps]) @@ @]
         IN MoveDeps(c, ix, iy, iybgin, ndeps + 1, ixdeps)

\* lines 866-879: the source's benefit slots i..last appended to the target
RECURSIVE MoveSlots(_, _, _, _, _)
MoveSlots(hu, ix, iy, i, last) ==
    IF i > last THEN hu
    ELSE LET pos == hu[iy + 1].ben_number
             a == [hu EXCEPT ![iy + 1].slots =
                       (pos :> SlotAt(hu[ix + 1], i)) @@ @]
             b == [a EXCEPT ![iy + 1].ben_number = @ + 1]
         IN MoveSlots(b, ix, iy, i + 1, last)

\* AddCounters without the line for n21
AddCountersWithoutN21(t, src) ==
    [t EXCEPT
        !.nu05 = @ + src.nu05,
        !.nu13 = @ + src.nu13,
        !.nu18_dep = @ + src.nu18_dep,
        !.nu18 = @ + src.nu18,
        !.n1820 = @ + src.n1820,
        !.elderly_dependent = @ + src.elderly_dependent,
        !.n24 = @ + src.n24,
        !.EIC = @ + src.EIC,
        !.f2441 = @ + src.f2441,
        !.ben = [k \in BenKinds |-> @[k] + src.ben[k]]]

AddCounters(t, src) ==
    [t EXCEPT
        !.nu05 = @ + src.nu05,
        !.nu13 = @ + src.nu13,
        !.nu18_dep = @ + src.nu18_dep,
        !.nu18 = @ + src.nu18,
        !.n1820 = @ + src.n1820,
        !.n21 = @ + src.n21,
        !.elderly_dependent = @ + src.elderly_dependent,
        !.n24 = @ + src.n24,
        !.EIC = @ + src.EIC,
        !.f2441 = @ + src.f2441,
        !.ben = [k \in BenKinds |-> @[k] + src.ben[k]]]

convert(hu, ix, iy) ==
    LET h1 == [hu EXCEPT ![ix + 1].ifdept = TRUE]
        ixdeps == h1[ix + 1].depne
        iydeps == h1[iy + 1].depne
        h2 == [h1 EXCEPT ![ix + 1].depne = 0]
        ixjs == h2[ix + 1].js
        h3 == IF ixjs = 2
              THEN [h2 EXCEPT
                      ![iy + 1].depne = @ + ixdeps + 2,
                      ![iy + 1].dep = ((iydeps + 1) :> ix)
                                      @@ ((iydeps + 2) :> h2[ix + 1].sp_ptr)
                                      @@ @,
                      ![iy + 1].depage = ((iydeps + 1) :> h2[ix + 1].ageh)
                                         @@ ((iydeps + 2) :> h2[ix + 1].ages)
                                         @@ @]
              ELSE [h2 EXCEPT
                      ![iy + 1].depne = @ + ixdeps + 1,
                      ![iy + 1].dep = ((iydeps + 1) :> ix) @@ @,
                      ![iy + 1].depage = ((iydeps + 1) :> h2[ix + 1].ageh)
                                         @@ @]
        iybgin == IF ixjs = 2 THEN iydeps + 2 ELSE iydeps + 1
        h4 == MoveDeps(h3, ix, iy, iybgin, 1, ixdeps)
        h5 == [h4 EXCEPT ![iy + 1] = AddCounters(@, h4[ix + 1])]
    IN MoveSlots(h5, ix, iy, 1, h5[ix + 1].ben_number - 1)

(***************************************************************************)
(* search()                                                                *)
(***************************************************************************)
\* lines 1042-1048: the last unit whose income is >= every earlier maximum.
\* house_units.index(unit) is the unit's own position: two units of a
\* household differ at least in a_lineno or ifdept.
\* the scan with a strict comparison: the first unit of maximum income
RECURSIVE TopUnitFirst(_, _, _, _, _)
TopUnitFirst(hu, k, any, high, idxh) ==
    IF k > Len(hu) THEN [highest |-> high, idxhigh |-> idxh]
    ELSE IF ~any \/ totincx(hu[k]) > high
         THEN TopUnitFirst(hu, k + 1, TRUE, totincx(hu[k]), k - 1)
         ELSE TopUnitFirst(hu, k + 1, any, high, idxh)

RECURSIVE TopUnit(_, _, _, _, _)
TopUnit(hu, k, any, high, idxh) ==
    IF k > Len(hu) THEN [highest |-> high, idxhigh |-> idxh]
    ELSE IF ~any \/ totincx(hu[k]) >= high
         THEN TopUnit(hu, k + 1, TRUE, totincx(hu[k]), k - 1)
         ELSE TopUnit(hu, k + 1, any, high, idxh)

\* highest = -9.9e32 is below every income: the first unit always replaces it
Top(hu) == TopUnit(hu, 1, FALSE, 0, 0)

Convert1(hu, i, idxh, high) ==
    /\ i # idxh
    /\ UnitAt(hu, i).ifdept # TRUE
    /\ high > 0
    /\ UnitAt(hu, i).js # 2

\* lines 1061-1068: exactly one of the two tests on totinc holds when
\* totinc <= 3000, and convert leaves totinc unchanged
FoldByFtype(unit) ==
    /\ unit.ftype \in {1, 3, 5}
    /\ (totincx(unit) <= 0 \/ (0 < totincx(unit) /\ totincx(unit) <= 3000))

FoldByRelcode(unit) == unit.relcode = 11

\* unit['t_flag'] = False; self.convert(ix, idxhigh)
fold(hu, i, idxh) == convert([hu EXCEPT ![i + 1].t_flag = FALSE], i, idxh)

(***************************************************************************)
(* filst(record): 1 if the unit files a return, 0 otherwise                *)
(***************************************************************************)
filst(record) ==
    LET dep_exemption == record.depne * depExempt
        income == record.was + record.intst + record.dbe + record.alimony
                  + record.bil + record.pensions + record.rents + record.fil
                  + record.ucomp
        amount1 == IF record.agede # 0 THEN single65 - dep_exemption
                   ELSE single - dep_exemption
        amount2 == IF record.agede = 1 THEN joint65one - dep_exemption
                   ELSE IF record.agede = 2 THEN joint65both - dep_exemption
                   ELSE joint - dep_exemption
        amount3 == IF record.agede # 0 THEN hoh65 - dep_exemption ELSE hoh
        bystatus ==
            CASE record.js = 1 -> record.was >= wage1 \/ income >= amount1
              [] record.js = 2 ->
                    \/ IF record.depne > 0 THEN record.was >= wage2
                       ELSE record.was >= wage2nk
                    \/ income >= amount2
              [] record.js = 3 -> record.was >= wage3 \/ income >= amount3
              [] OTHER -> FALSE
        fils == /\ record.js = 3
                /\ record.agede > 0
                /\ income > 6500
                /\ record.depne > 0
    IN IF bystatus THEN 1
       ELSE IF record.ifdept THEN 1
       ELSE IF fils THEN 0
       ELSE IF record.bil < 0 \/ record.fil < 0 \/ record.rents < 0 THEN 1
       ELSE 0

(***************************************************************************)
(* output(unit, house)                                                     *)
(***************************************************************************)
\* house[dindex] of a Python list: positions -len..len-1 exist
ValidIndex(h, d) == -Len(h) <= d /\ d < Len(h)
PyAt(h, d) == IF d >= 0 THEN h[d + 1] ELSE h[Len(h) + d + 1]

\* unit['dep<i>'] (KeyError), house[dindex] (IndexError), unit['depage<i>']
OutputRaises(unit, h) ==
    \E i \in 1..unit.depne :
        \/ i \notin DOMAIN unit.dep
        \/ ~ValidIndex(h, unit.dep[i])
        \/ i \notin DOMAIN unit.depage

\* lines 1124-1138
reset_counts(record) ==
    LET r1 == [record EXCEPT
                  !.xxtot = 1, !.nu18 = 0, !.n1820 = 0, !.n21 = 0, !.n24 = 0,
                  !.EIC = 0, !.f2441 = 0, !.nu18_dep = 0, !.nu05 = 0,
                  !.nu13 = 0]
        r2 == check_age(r1, r1.ageh, FALSE)
    IN IF r2.js = 2
       THEN check_age([r2 EXCEPT !.xxtot = @ + 1], r2.ages, FALSE)
       ELSE r2

\* lines 1145-1153: the dependents' ages counted again after a reset
RECURSIVE recount_deps(_, _, _, _, _)
recount_deps(record, unit, h, i, depne) ==
    IF i > depne THEN record
    ELSE recount_deps(
             check_age([record EXCEPT !.xxtot = @ + 1],
                       PyAt(h, unit.dep[i]).a_age, TRUE),
             unit, h, i + 1, depne)

dep_income(person) ==
    person.wsal_val + person.semp_val + person.frse_val + person.uc_val
    + person.ss_val + person.semp_val + person.rtm_val + person.int_val
    + person.div_val + person.alm_val

\* lines 1178-1192: each unflagged dependent's income assigned to zdepin
RECURSIVE dep_income_loop(_, _, _, _, _)
dep_income_loop(zdepin, unit, h, i, depne) ==
    IF i > depne THEN zdepin
    ELSE dep_income_loop(
             IF ~PyAt(h, unit.dep[i]).flag
             THEN dep_income(PyAt(h, unit.dep[i]))
             ELSE zdepin,
             unit, h, i + 1, depne)

\* txpye of lines 1115-1117
txpye(unit) == IF unit.js = 1 THEN 2 ELSE 1

NeedsReset(record) ==
    \/ record.xxtot # record.nu18 + record.n1820 + record.n21
    \/ record.n24 > record.nu18

output(unit, h) ==
    LET depne == unit.depne
        r0 == [js |-> unit.js, ifdept |-> unit.ifdept, agede |-> unit.agede,
               depne |-> depne, ageh |-> unit.ageh, ages |-> unit.ages,
               was |-> unit.was, wasp |-> unit.wasp, wass |-> unit.wass,
               intst |-> unit.intst, dbe |-> unit.dbe,
               alimony |-> unit.alimony, bil |-> unit.bil,
               pensions |-> unit.pensions, rents |-> unit.rents,
               fil |-> unit.fil, ucomp |-> unit.ucomp,
               socsec |-> unit.socsec,
               a_lineno |-> unit.a_lineno,
               nu18 |-> unit.nu18, n1820 |-> unit.n1820, n21 |-> unit.n21,
               n24 |-> unit.n24, nu05 |-> unit.nu05, nu13 |-> unit.nu13,
               f2441 |-> unit.f2441,
               elderly_dependent |-> unit.elderly_dependent,
               nu18_dep |-> unit.nu18_dep, EIC |-> unit.EIC,
               ben |-> unit.ben,
               slots |-> [p \in (DOMAIN unit.slots) \cap (1..NSlots) |->
                              unit.slots[p]],
               xxtot |-> txpye(unit) + depne,
               eflag |-> FALSE,   \* the local eflag, kept with the record
               zdepin |-> 0, income |-> 0, filst |-> 0]
        eflag == NeedsReset(r0)
        r1 == IF eflag THEN [reset_counts(r0) EXCEPT !.eflag = TRUE] ELSE r0
        r2 == IF eflag THEN recount_deps(r1, unit, h, 1, depne) ELSE r1
    IN [r2 EXCEPT
           !.zdepin = dep_income_loop(0, unit, h, 1, depne),
           !.income = totincx(unit),
           !.filst = filst(unit)]

(***************************************************************************)
(* The households of the model.  A person is drawn from a small set of     *)
(* profiles (age, income streams, relationship code, family type); the     *)
(* household adds the line numbers, the household type and the family      *)
(* ids.  InitSingles draws households of unmarried persons, InitCouple     *)
(* households whose first two members carry marital codes and spouse       *)
(* pointers, with or without a third member.                               *)
(***************************************************************************)
Profile(age, wsal, intv, semp, ss, rel, ft) ==
    [a_age |-> age, wsal_val |-> wsal, int_val |-> intv, semp_val |-> semp,
     ss_val |-> ss, a_exprrp |-> rel, ftype |-> ft]

Profiles ==
    {Profile(40, 40000, 0, 0, 0, 1, 2),    \* earner
     Profile(40, 500, 0, 0, 0, 1, 1),      \* low wages, sub-family
     Profile(40, 0, 500, 0, 0, 1, 1),      \* low interest, sub-family
     Profile(40, 0, 0, 0, 0, 1, 1),        \* no income, sub-family
     Profile(10, 0, 0, 0, 0, 5, 2),        \* child
     Profile(0, 0, 0, 0, 0, 5, 2),         \* age 0 (infant or missing age)
     Profile(40, 0, 500, 0, 0, 11, 1),     \* relationship 11, sub-family
     Profile(40, 0, 500, 0, 0, 11, 2),     \* relationship 11
     Profile(70, 0, 0, 0, 2000, 8, 1),     \* parent with Social Security
     Profile(40, 0, 0, -1000, 0, 1, 2)}    \* self-employment loss

\* the first two members of a household with marital codes
CoupleProfiles(wages) ==
    {Profile(age, wsal, 0, 0, 0, 1, 2) : age \in {0, 40}, wsal \in wages}

\* marital code and whether a spouse pointer is present
MaritalKinds == {<<7, FALSE>>, <<1, TRUE>>, <<3, FALSE>>, <<6, TRUE>>}

BenOrder == <<"ssi", "vb", "snap", "mcare", "mcaid", "ss", "tanf", "ui",
              "housing", "wic">>
KindNo(k) == CHOOSE i \in 1..Len(BenOrder) : BenOrder[i] = k
BenVal(k, line) == 10 * KindNo(k) + line

MkPerson(p, line, n, ht, fid, maritl, spouse) ==
    [a_lineno |-> line, a_spouse |-> spouse, a_maritl |-> maritl,
     a_age |-> p.a_age, a_exprrp |-> p.a_exprrp, a_enrlw |-> 0,
     ffpos |-> fid, ftype |-> p.ftype, h_type |-> ht, h_numper |-> n,
     wsal_val |-> p.wsal_val, semp_val |-> p.semp_val, frse_val |-> 0,
     uc_val |-> 0, ss_val |-> p.ss_val, ss_val_y |-> p.ss_val,
     rtm_val |-> 0, int_val |-> p.int_val, div_val |-> 0, rnt_val |-> 0,
     alm_val |-> 0,
     ben |-> [k \in BenKinds |-> BenVal(k, line)],
     prob |-> [k \in BenKinds |-> line],
     h_flag |-> FALSE, s_flag |-> FALSE, d_flag |-> FALSE, flag |-> FALSE]

\* family ids: one family, or every member a family of their own
FamilyId(fam, line) == IF fam = "same" THEN 1 ELSE line

HTypes(n) == IF n = 1 THEN {1, 6, 9} ELSE {1, 9}

Start ==
    /\ house_units = <<>>
    /\ nunits = 0
    /\ tax_units = <<>>
    /\ pc = "start"
    /\ idx = 1
    /\ idxhigh = 0
    /\ highest = 0
    /\ scan_ix = 0
    /\ convert1 = FALSE
    /\ run = 1

\* createcps() has read its inputs and built this Returns object
Inside ==
    /\ files = {}
    /\ stage = "computation"
    /\ rets = 1
    /\ calls = <<>>

InitSingles ==
    \E n \in 1..MaxPersons :
        \E ps \in [1..n -> Profiles], ht \in HTypes(n),
           fam \in {"same", "own"} :
            house = [i \in 1..n |->
                        MkPerson(ps[i], i, n, ht, FamilyId(fam, i), 7, 0)]

InitCouple ==
    \E p1 \in CoupleProfiles({0, 40000}), p2 \in CoupleProfiles({0, 500}),
       k1 \in MaritalKinds, k2 \in MaritalKinds,
       third \in {<<>>} \cup {<<p>> : p \in Profiles}, ht \in {1, 9},
       fam \in {"same", "own"} :
        LET n == 2 + Len(third)
            couple ==
                <<MkPerson(p1, 1, n, ht, FamilyId(fam, 1), k1[1],
                           IF k1[2] THEN 2 ELSE 0),
                  MkPerson(p2, 2, n, ht, FamilyId(fam, 2), k2[1],
                           IF k2[2] THEN 1 ELSE 0)>>
        IN house = IF third = <<>> THEN couple
                   ELSE Append(couple,
                               MkPerson(third[1], 3, n, ht, FamilyId(fam, 3),
                                        7, 0))

Init == Start /\ Inside /\ (InitSingles \/ InitCouple)

(***************************************************************************)
(* computation(), for one household                                        *)
(***************************************************************************)
IsSingle == house[1].h_type \in {6, 7} /\ house[1].h_numper = 1
IsGroup == house[1].h_type = 9

not_flagged(person) ==
    ~person.h_flag /\ ~person.s_flag /\ ~person.d_flag

\* the test of lines 116-117
MustFileDependent(person) ==
    ~person.s_flag /\ person.d_flag /\ must_file(person)

\* self.house_units.append(self.create(house[r], house)); where create
\* raises, computation() ends with the exception
AppendCreate(r, next_pc, next_idx) ==
    /\ nunits' = nunits + 1
    /\ IF CreateRaises(house[r], house)
       THEN /\ pc' = "raised"
            /\ UNCHANGED <<house, house_units, idx>>
       ELSE LET made == create(r, house)
            IN /\ house' = made.house
               /\ house_units' = Append(house_units, made.unit)
               /\ pc' = next_pc
               /\ idx' = next_idx
    /\ UNCHANGED <<tax_units, idxhigh, highest, scan_ix, convert1>>

CreateSingle ==
    /\ pc = "start"
    /\ IsSingle
    /\ AppendCreate(1, "hh", 1)
    /\ UNCHANGED <<run, outside>>

Dispatch ==
    /\ pc = "start"
    /\ ~IsSingle
    /\ pc' = IF IsGroup THEN "group" ELSE "family"
    /\ UNCHANGED <<house, house_units, nunits, tax_units, idx, idxhigh,
                   highest, scan_ix, convert1>>
    /\ UNCHANGED <<run, outside>>

GroupCreate ==
    /\ pc = "group"
    /\ IF idx < Len(house)
       THEN AppendCreate(idx, "group", idx + 1)
       ELSE AppendCreate(idx, "hh", 1)
    /\ UNCHANGED <<run, outside>>

FamilyCreate ==
    /\ pc = "family"
    /\ not_flagged(house[idx])
    /\ AppendCreate(idx, "mustfile", idx)
    /\ UNCHANGED <<run, outside>>

FamilySkip ==
    /\ pc = "family"
    /\ ~not_flagged(house[idx])
    /\ pc' = "mustfile"
    /\ UNCHANGED <<house, house_units, nunits, tax_units, idx, idxhigh,
                   highest, scan_ix, convert1>>
    /\ UNCHANGED <<run, outside>>

MustFileCreate ==
    /\ pc = "mustfile"
    /\ MustFileDependent(house[idx])
    /\ AppendCreate(idx, "search", idx)
    /\ UNCHANGED <<run, outside>>

MustFileSkip ==
    /\ pc = "mustfile"
    /\ ~MustFileDependent(house[idx])
    /\ pc' = "search"
    /\ UNCHANGED <<house, house_units, nunits, tax_units, idx, idxhigh,
                   highest, scan_ix, convert1>>
    /\ UNCHANGED <<run, outside>>

\* the end of the loop body for the person at idx
NextPerson ==
    IF idx < Len(house)
    THEN pc' = "family" /\ idx' = idx + 1
    ELSE pc' = "hh" /\ idx' = 1

SearchNotCalled ==
    /\ pc = "search"
    /\ ~(nunits > 1)
    /\ NextPerson
    /\ UNCHANGED <<house, house_units, nunits, tax_units, idxhigh, highest,
                   scan_ix, convert1>>
    /\ UNCHANGED <<run, outside>>

\* search() whose top unit is a dependent: nothing is examined
SearchTopDependent ==
    /\ pc = "search"
    /\ nunits > 1
    /\ UnitAt(house_units, Top(house_units).idxhigh).ifdept
    /\ idxhigh' = Top(house_units).idxhigh
    /\ highest' = Top(house_units).highest
    /\ NextPerson
    /\ UNCHANGED <<house, house_units, nunits, tax_units, scan_ix, convert1>>
    /\ UNCHANGED <<run, outside>>

SearchBegin ==
    /\ pc = "search"
    /\ nunits > 1
    /\ ~UnitAt(house_units, Top(house_units).idxhigh).ifdept
    /\ idxhigh' = Top(house_units).idxhigh
    /\ highest' = Top(house_units).highest
    /\ scan_ix' = 0
    /\ pc' = "scan_ft"
    /\ UNCHANGED <<house, house_units, nunits, tax_units, idx, convert1>>
    /\ UNCHANGED <<run, outside>>

\* the body of "for ix in range(0, self.nunits)" up to the tests on ftype
FoldsAtFtype ==
    /\ Convert1(house_units, scan_ix, idxhigh, highest)
    /\ FoldByFtype(UnitAt(house_units, scan_ix))

SearchFoldFtype ==
    /\ pc = "scan_ft"
    /\ FoldsAtFtype
    /\ convert1' = Convert1(house_units, scan_ix, idxhigh, highest)
    /\ house_units' = fold(house_units, scan_ix, idxhigh)
    /\ pc' = "scan_rel"
    /\ UNCHANGED <<house, nunits, tax_units, idx, idxhigh, highest, scan_ix>>
    /\ UNCHANGED <<run, outside>>

SearchKeepFtype ==
    /\ pc = "scan_ft"
    /\ ~FoldsAtFtype
    /\ convert1' = Convert1(house_units, scan_ix, idxhigh, highest)
    /\ pc' = "scan_rel"
    /\ UNCHANGED <<house, house_units, nunits, tax_units, idx, idxhigh,
                   highest, scan_ix>>
    /\ UNCHANGED <<run, outside>>

\* the test "if idxrelc == 11", under the convert1 of the top of the body
FoldsAtRelcode ==
    /\ convert1
    /\ FoldByRelcode(UnitAt(house_units, scan_ix))

\* the end of the body for the unit at scan_ix
NextUnit ==
    IF scan_ix + 1 < nunits
    THEN /\ scan_ix' = scan_ix + 1
         /\ pc' = "scan_ft"
         /\ idx' = idx
    ELSE /\ scan_ix' = scan_ix
         /\ NextPerson

SearchFoldRelcode ==
    /\ pc = "scan_rel"
    /\ FoldsAtRelcode
    /\ house_units' = fold(house_units, scan_ix, idxhigh)
    /\ NextUnit
    /\ UNCHANGED <<house, nunits, tax_units, idxhigh, highest, convert1>>
    /\ UNCHANGED <<run, outside>>

SearchKeepRelcode ==
    /\ pc = "scan_rel"
    /\ ~FoldsAtRelcode
    /\ NextUnit
    /\ UNCHANGED <<house, house_units, nunits, tax_units, idxhigh, highest,
                   convert1>>
    /\ UNCHANGED <<run, outside>>

\* map(self.hhstatus, self.house_units): a list built on the spot under
\* Python 2, a lazy iterator nobody consumes under Python 3
HhstatusMap ==
    /\ pc = "hh"
    /\ \E eager \in BOOLEAN :
          house_units' = IF eager THEN MapHhstatus(house_units, 0)
                         ELSE house_units
    /\ pc' = "emit"
    /\ idx' = 1
    /\ UNCHANGED <<house, nunits, tax_units, idxhigh, highest, scan_ix,
                   convert1>>
    /\ UNCHANGED <<run, outside>>

\* the end of the body of "for unit in self.house_units"
NextEmit ==
    IF idx < Len(house_units)
    THEN pc' = "emit" /\ idx' = idx + 1
    ELSE pc' = "done" /\ idx' = idx

Emit ==
    /\ pc = "emit"
    /\ house_units[idx].t_flag
    /\ IF OutputRaises(house_units[idx], house)
       THEN pc' = "raised" /\ UNCHANGED <<tax_units, idx>>
       ELSE /\ tax_units' = Append(tax_units, output(house_units[idx], house))
            /\ NextEmit
    /\ UNCHANGED <<house, house_units, nunits, idxhigh, highest, scan_ix,
                   convert1>>
    /\ UNCHANGED <<run, outside>>

EmitSkip ==
    /\ pc = "emit"
    /\ ~house_units[idx].t_flag
    /\ NextEmit
    /\ UNCHANGED <<house, house_units, nunits, tax_units, idxhigh, highest,
                   scan_ix, convert1>>
    /\ UNCHANGED <<run, outside>>

Next ==
    \/ CreateSingle
    \/ Dispatch
    \/ GroupCreate
    \/ FamilyCreate
    \/ FamilySkip
    \/ MustFileCreate
    \/ MustFileSkip
    \/ SearchNotCalled
    \/ SearchTopDependent
    \/ SearchBegin
    \/ SearchFoldFtype
    \/ SearchKeepFtype
    \/ SearchFoldRelcode
    \/ SearchKeepRelcode
    \/ HhstatusMap
    \/ Emit
    \/ EmitSkip

Spec == Init /\ [][Next]_vars

(***************************************************************************)
(* Vocabulary of the properties                                            *)
(***************************************************************************)
Persons == 1..Len(house)
Units == 1..Len(house_units)
Finished == pc = "done"
FamilyHousehold == ~IsSingle /\ ~IsGroup

\* the member a unit was created for
HeadOf(k) == house_units[k].a_lineno
\* the unit folded a spouse in (lines 284-325 ran), and who that is
HasSpouse(k) == house_units[k].js = 2 /\ house_units[k].sp_ptr # 0
SpouseOf(k) == SpouseIndex(house[HeadOf(k)], house)
\* one of the unit's slots dep1..dep<depne> refers to member p
HoldsDependent(k, p) ==
    \E i \in 1..house_units[k].depne :
        i \in DOMAIN house_units[k].dep /\ house_units[k].dep[i] = p - 1
Surviving(k) == house_units[k].t_flag
\* the income streams of unit u are those of person p alone
OwnIncome(u, p) ==
    /\ u.was = p.wsal_val /\ u.wass = 0 /\ u.intst = p.int_val
    /\ u.dbe = p.div_val /\ u.alimony = p.alm_val /\ u.bil = p.semp_val
    /\ u.pensions = p.rtm_val /\ u.rents = p.rnt_val
    /\ u.fil = p.frse_val /\ u.ucomp = p.uc_val /\ u.socsec = p.ss_val
OwnIncomeOnly(k) == OwnIncome(house_units[k], house[HeadOf(k)])
\* a person's total income over the ten streams
PersonIncome(p) ==
    p.wsal_val + p.semp_val + p.frse_val + p.uc_val + p.ss_val + p.rtm_val
    + p.int_val + p.div_val + p.rnt_val + p.alm_val
JointCode(p) == p.a_maritl \in {1, 2, 3}
\* members a and b point at each other
Reciprocal(a, b) ==
    /\ house[a].a_spouse = house[b].a_lineno
    /\ house[b].a_spouse = house[a].a_lineno
\* a step that calls create() for the member at idx
CreateCalled == nunits' = nunits + 1

(***************************************************************************)
(* C1: in a family-type household, once the driver has finished, nobody    *)
(* heads a unit and is also a flagged dependent held in a slot of another  *)
(* unit, unless the own unit was created for an already flagged dependent  *)
(* (zifdep, the creation-time copy of the person's d_flag).                *)
(***************************************************************************)
C1_FlagExclusivity ==
    (Finished /\ FamilyHousehold) =>
        \A p \in Persons : \A k \in Units : \A k2 \in Units :
            (/\ k # k2
             /\ HeadOf(k) = p
             /\ house[p].d_flag
             /\ HoldsDependent(k2, p))
            => house_units[k].zifdep

(***************************************************************************)
(* C2: every emitted record has xxtot = filer count + depne, the filer     *)
(* count being 2 for js = 2 and 1 otherwise.                               *)
(***************************************************************************)
C2_CountInvariant ==
    \A j \in 1..Len(tax_units) :
        tax_units[j].xxtot
            = (IF tax_units[j].js = 2 THEN 2 ELSE 1) + tax_units[j].depne

(***************************************************************************)
(* Household-wide totals over house_units                                  *)
(***************************************************************************)
Counters == {"nu05", "nu13", "nu18_dep", "nu18", "n1820", "n21", "n24",
             "EIC", "f2441", "elderly_dependent"}
DepneTotal(hu) == SumSeq([i \in 1..Len(hu) |-> hu[i].depne], Len(hu))
CounterTotal(hu, c) == SumSeq([i \in 1..Len(hu) |-> hu[i][c]], Len(hu))
BenefitTotal(hu, k) == SumSeq([i \in 1..Len(hu) |-> hu[i].ben[k]], Len(hu))
\* a step of search() that calls convert(scan_ix, idxhigh)
ConvertStep == SearchFoldFtype \/ SearchFoldRelcode

(***************************************************************************)
(* C3, as stated: a convert() leaves the sums over all of house_units of   *)
(* depne, of each age-bracket and credit counter and of each benefit       *)
(* total as they were.                                                     *)
(***************************************************************************)
C3_MergeConservation ==
    [][ConvertStep =>
        /\ DepneTotal(house_units') = DepneTotal(house_units)
        /\ \A c \in Counters :
              CounterTotal(house_units', c) = CounterTotal(house_units, c)
        /\ \A k \in BenKinds :
              BenefitTotal(house_units', k) = BenefitTotal(house_units, k)]_vars

(***************************************************************************)
(* C3, amended: convert(ix, iy) adds the source's counters and benefit     *)
(* totals to the target and leaves them in the source, so each total over  *)
(* house_units grows by the source's amount; the source's depne moves to   *)
(* the target together with one more for the source's head (two for a      *)
(* joint source), so the depne total grows by that one (or two). No other  *)
(* unit changes.                                                           *)
(***************************************************************************)
C3_MergeTransfers ==
    [][ConvertStep =>
        LET src == house_units[scan_ix + 1]
            tgt == house_units[idxhigh + 1]
            heads == IF src.js = 2 THEN 2 ELSE 1
        IN /\ house_units'[scan_ix + 1].depne = 0
           /\ house_units'[idxhigh + 1].depne = tgt.depne + src.depne + heads
           /\ DepneTotal(house_units') = DepneTotal(house_units) + heads
           /\ \A c \in Counters :
                 /\ house_units'[idxhigh + 1][c] = tgt[c] + src[c]
                 /\ house_units'[scan_ix + 1][c] = src[c]
                 /\ CounterTotal(house_units', c)
                        = CounterTotal(house_units, c) + src[c]
           /\ \A k \in BenKinds :
                 /\ house_units'[idxhigh + 1].ben[k] = tgt.ben[k] + src.ben[k]
                 /\ house_units'[scan_ix + 1].ben[k] = src.ben[k]
                 /\ BenefitTotal(house_units', k)
                        = BenefitTotal(house_units, k) + src.ben[k]
           /\ \A j \in Units \ {scan_ix + 1, idxhigh + 1} :
                 house_units'[j] = house_units[j]]_vars

\* a convert() has run on a source with a counted head and benefits of
\* its own: the source is switched off and its head sits in the target
C3_Merged ==
    \E k \in Units :
        /\ ~house_units[k].t_flag
        /\ house_units[k].ifdept
        /\ house_units[k].n21 > 0
        /\ house_units[k].ben["snap"] > 0
        /\ pc \in {"scan_rel", "scan_ft", "family", "hh"}
        /\ house_units[idxhigh + 1].depne > 0
        /\ house_units[idxhigh + 1].n21 > house_units[k].n21

(***************************************************************************)
(* C4: in a family-type household, once the driver has finished, every     *)
(* person is the head, the folded-in spouse or a slot dep1..dep<depne> of  *)
(* some unit whose t_flag is true.                                         *)
(***************************************************************************)
C4_PartitionComplete ==
    (Finished /\ FamilyHousehold) =>
        \A p \in Persons : \E k \in Units :
            /\ Surviving(k)
            /\ \/ HeadOf(k) = p
               \/ HasSpouse(k) /\ SpouseOf(k) = p
               \/ HoldsDependent(k, p)

(***************************************************************************)
(* C5: a create() for a head whose spouse pointer is non-zero and has no   *)
(* mutual match in the household raises nothing, whatever the marital      *)
(* code, and returns a surviving unit whose income is the head's own,      *)
(* setting nobody's s_flag.                                                *)
(***************************************************************************)
C5_UnmatchedPointer ==
    [][(/\ CreateCalled
        /\ house[idx].a_spouse # 0
        /\ SpouseMatches(house[idx], house) = {})
       => /\ pc' # "raised"
          /\ Len(house_units') = Len(house_units) + 1
          /\ house_units'[Len(house_units')].t_flag
          /\ OwnIncome(house_units'[Len(house_units')], house[idx])
          /\ \A p \in Persons : house'[p].s_flag = house[p].s_flag]_vars

(***************************************************************************)
(* C6: in a family-type household, once the driver has finished, a person  *)
(* flagged dependent (not spouse) who must file heads exactly one unit     *)
(* created for a dependent; that unit has ifdept true, survives, has no    *)
(* spouse and no dependents, and the person still sits in a dependent slot *)
(* of another unit.                                                        *)
(***************************************************************************)
C6_MustFileUnit ==
    (Finished /\ FamilyHousehold) =>
        \A p \in Persons :
            (house[p].d_flag /\ ~house[p].s_flag /\ must_file(house[p])) =>
                /\ Cardinality({k \in Units :
                                   HeadOf(k) = p /\ house_units[k].zifdep}) = 1
                /\ \A k \in Units :
                      (HeadOf(k) = p /\ house_units[k].zifdep) =>
                          /\ house_units[k].ifdept
                          /\ Surviving(k)
                          /\ ~HasSpouse(k)
                          /\ house_units[k].depne = 0
                          /\ \E k2 \in Units \ {k} : HoldsDependent(k2, p)

(***************************************************************************)
(* C7: a family-type household of three unmarried adults whose total       *)
(* incomes are 40000, 500 and 0, the two lower earners of family type 1,   *)
(* ends with exactly one unit of t_flag true: the 40000 earner's, with     *)
(* depne 2.                                                                *)
(***************************************************************************)
ScenarioD ==
    /\ FamilyHousehold
    /\ Len(house) = 3
    /\ \A p \in Persons :
          /\ house[p].a_age >= 18
          /\ ~JointCode(house[p])
          /\ house[p].a_spouse = 0
    /\ \E a, b, c \in Persons :
          /\ {a, b, c} = Persons
          /\ PersonIncome(house[a]) = 40000
          /\ PersonIncome(house[b]) = 500 /\ house[b].ftype = 1
          /\ PersonIncome(house[c]) = 0 /\ house[c].ftype = 1

C7_ScenarioD ==
    (Finished /\ ScenarioD) =>
        /\ Cardinality({k \in Units : Surviving(k)}) = 1
        /\ \A k \in Units :
              Surviving(k) =>
                  /\ PersonIncome(house[HeadOf(k)]) = 40000
                  /\ house_units[k].depne = 2

(***************************************************************************)
(* C8: a family household of a head, a spouse pointing back at the head    *)
(* and a child aged 10 with no income in the same family id: the child is  *)
(* flagged dependent and the one emitted record has depne 1, nu13 1,       *)
(* n24 1 and EIC 1, with or without the reset of output().                 *)
(***************************************************************************)
ScenarioC ==
    /\ FamilyHousehold
    /\ Len(house) = 3
    /\ JointCode(house[1]) /\ JointCode(house[2]) /\ Reciprocal(1, 2)
    /\ house[3].a_age = 10
    /\ PersonIncome(house[3]) = 0
    /\ house[3].ffpos = house[1].ffpos
    /\ house[3].a_spouse = 0

C8_ScenarioC ==
    (Finished /\ ScenarioC) =>
        /\ house[3].d_flag
        /\ Len(tax_units) = 1
        /\ tax_units[1].depne = 1
        /\ tax_units[1].nu13 = 1
        /\ tax_units[1].n24 = 1
        /\ tax_units[1].EIC = 1

\* the scenario finished, its record having gone through the reset
C8_ScenarioCReset ==
    /\ Finished
    /\ ScenarioC
    /\ house[1].a_age >= 21 /\ house[2].a_age >= 21
    /\ house[3].d_flag
    /\ Len(tax_units) = 1
    /\ tax_units[1].eflag
    /\ tax_units[1].nu13 = 1

(***************************************************************************)
(* C9: a household of exactly two persons with joint marital codes and     *)
(* reciprocal spouse pointers emits exactly one record, with js 2, xxtot 2 *)
(* and was = wasp + wass = the two persons' wages; the second person heads *)
(* no unit.                                                                *)
(***************************************************************************)
ScenarioB ==
    /\ Len(house) = 2
    /\ JointCode(house[1]) /\ JointCode(house[2]) /\ Reciprocal(1, 2)

C9_ScenarioB ==
    (Finished /\ ScenarioB) =>
        /\ Len(tax_units) = 1
        /\ tax_units[1].js = 2
        /\ tax_units[1].xxtot = 2
        /\ tax_units[1].was = house[1].wsal_val + house[2].wsal_val
        /\ tax_units[1].was = tax_units[1].wasp + tax_units[1].wass
        /\ \A k \in Units : HeadOf(k) # 2

(***************************************************************************)
(* C10: a group-quarters household ends with one unit per person, headed   *)
(* by that person, none with a spouse folded in or a dependent attached,   *)
(* nobody flagged spouse or dependent, every unit surviving and emitted.   *)
(***************************************************************************)
C10_GroupQuarters ==
    (Finished /\ IsGroup) =>
        /\ Len(house_units) = Len(house)
        /\ Len(tax_units) = Len(house)
        /\ \A k \in Units :
              /\ HeadOf(k) = k
              /\ Surviving(k)
              /\ OwnIncomeOnly(k)
              /\ house_units[k].depne = 0
        /\ \A p \in Persons : ~house[p].s_flag /\ ~house[p].d_flag

(***************************************************************************)
(* ifdept() on its own: a candidate and the unit of a head, each drawn     *)
(* from the profiles, and repeated calls on the pair.                      *)
(***************************************************************************)
\* the candidates: the profiles, and a sub-family adult with interest 1500
IfdeptCandidates == Profiles \cup {Profile(40, 0, 1500, 0, 0, 1, 1)}

InitIfdept ==
    /\ \E p \in IfdeptCandidates, q \in Profiles :
          /\ house = <<MkPerson(p, 2, 2, 1, 1, 7, 0)>>
          /\ house_units = <<NewUnit(MkPerson(q, 1, 2, 1, 1, 7, 0))>>
    /\ nunits = 1
    /\ tax_units = <<>>
    /\ pc = "ifdept"
    /\ idx = 1
    /\ idxhigh = 0
    /\ highest = 0
    /\ scan_ix = 0
    /\ convert1 = FALSE
    /\ run = 1
    /\ Inside

IfdeptCall ==
    /\ pc = "ifdept"
    /\ Len(calls) < MaxCalls
    /\ LET c == ifdept_call(house[1], house_units[1])
       IN /\ house' = <<c.person>>
          /\ house_units' = <<c.record>>
          /\ calls' = Append(calls, c.ret)
    /\ UNCHANGED <<nunits, tax_units, pc, idx, idxhigh, highest, scan_ix,
                   convert1, run, files, stage, rets>>

SpecIfdept == InitIfdept /\ [][IfdeptCall]_vars

InitRerun ==
    /\ Start
    /\ Inside
    /\ \E n \in 1..(MaxPersons - 1) :
          \E ps \in [1..n -> Profiles], ht \in HTypes(n),
             fam \in {"same", "own"} :
              house = [i \in 1..n |->
                          MkPerson(ps[i], i, n, ht, FamilyId(fam, i), 7, 0)]

Rerun ==
    /\ pc = "done"
    /\ run < MaxRuns
    /\ run' = run + 1
    /\ house' = [i \in DOMAIN house |->
                    [house[i] EXCEPT !.h_flag = FALSE, !.s_flag = FALSE,
                                     !.d_flag = FALSE]]
    /\ house_units' = <<>>
    /\ nunits' = 0
    /\ pc' = "start"
    /\ idx' = 1
    /\ idxhigh' = 0
    /\ highest' = 0
    /\ scan_ix' = 0
    /\ convert1' = FALSE
    /\ UNCHANGED <<tax_units, outside>>

NextRerun ==
    \/ CreateSingle
    \/ Dispatch
    \/ GroupCreate
    \/ FamilyCreate
    \/ FamilySkip
    \/ MustFileCreate
    \/ MustFileSkip
    \/ SearchNotCalled
    \/ SearchTopDependent
    \/ SearchBegin
    \/ SearchFoldFtype
    \/ SearchKeepFtype
    \/ SearchFoldRelcode
    \/ SearchKeepRelcode
    \/ HhstatusMap
    \/ Emit
    \/ EmitSkip
    \/ Rerun

SpecRerun == InitRerun /\ [][NextRerun]_vars

(***************************************************************************)
(* C12: when a second (or later) computation() on the same instance has    *)
(* finished, the table it returns holds what one run produces: one record  *)
(* for each surviving unit of the household, none of them twice.           *)
(***************************************************************************)
C12_RerunSameTable ==
    (Finished /\ run > 1) =>
        /\ Len(tax_units) = Cardinality({k \in Units : Surviving(k)})
        /\ \A i, j \in 1..Len(tax_units) :
              i # j => tax_units[i] # tax_units[j]

(***************************************************************************)
(* createcps(): the choice of the input form and the construction of the   *)
(* three Returns objects.  A file is a name present under data/; the       *)
(* imputation files read by BenefitMerge stand as one name.                *)
(***************************************************************************)
Augmented == {"cps_2013_aug.csv", "cps_2014_aug.csv", "cps_2015_aug.csv"}
\* the raw CSV files whose presence is tested (lines 39-41)
RawTested == {"cpsmar2013.csv", "cpsmar2014.csv", "cpamar2015.csv"}
\* the raw CSV files that are read (lines 44-46)
RawRead == {"cpsmar2013.csv", "cpsmar2014.csv", "cpsmar2015.csv"}
Dat == {"asec2013_pubuse.dat", "asec2014_pubuse_tax_fix_5x8_2017.dat",
        "asec2015_pubuse.dat"}
Imputations == {"imputations"}
FileNames == Augmented \cup RawTested \cup RawRead \cup Dat \cup Imputations

\* lines 26-70 with the else branch of the DAT test left out
routeWithoutAbort(present) ==
    IF Augmented \subseteq present THEN "read_aug"
    ELSE IF RawTested \subseteq present THEN "read_raw"
    ELSE "convert_dat"

\* lines 26-70: where createcps() goes after its os.path.isfile tests
route(present) ==
    IF Augmented \subseteq present THEN "read_aug"
    ELSE IF RawTested \subseteq present THEN "read_raw"
    ELSE IF Dat \subseteq present THEN "convert_dat"
    ELSE "IOError"

InitCreatecps ==
    /\ files \in SUBSET FileNames
    /\ stage = "check"
    /\ rets = 0
    /\ calls = <<>>
    /\ house = <<>>
    /\ house_units = <<>>
    /\ nunits = 0
    /\ tax_units = <<>>
    /\ pc = "createcps"
    /\ idx = 1
    /\ idxhigh = 0
    /\ highest = 0
    /\ scan_ix = 0
    /\ convert1 = FALSE
    /\ run = 0

\* what createcps() leaves alone
computation_vars ==
    <<house, house_units, nunits, tax_units, pc, idx, idxhigh, highest,
      scan_ix, convert1, run, calls>>

CheckInputs ==
    /\ stage = "check"
    /\ stage' = route(files)
    /\ UNCHANGED <<files, rets, computation_vars>>

\* lines 33-37: the three files were just seen
ReadAugmented ==
    /\ stage = "read_aug"
    /\ stage' = "returns"
    /\ UNCHANGED <<files, rets, computation_vars>>

\* lines 44-48: pd.read_csv of a name that is absent raises an IOError
\* (FileNotFoundError) naming the file
ReadRaw ==
    /\ stage = "read_raw"
    /\ stage' = IF RawRead \subseteq files THEN "merge" ELSE "IOErrorRead"
    /\ UNCHANGED <<files, rets, computation_vars>>

\* lines 56-63
ConvertDat ==
    /\ stage = "convert_dat"
    /\ stage' = "merge"
    /\ UNCHANGED <<files, rets, computation_vars>>

\* lines 72-73: BenefitMerge reads the imputation files with pd.read_csv
MergeBenefits ==
    /\ stage = "merge"
    /\ stage' = IF Imputations \subseteq files THEN "returns"
                ELSE "IOErrorRead"
    /\ UNCHANGED <<files, rets, computation_vars>>

\* lines 75-83: Returns(cps13, 2013), Returns(cps14, 2014), Returns(cps15,
\* 2015), each followed by its computation()
BuildReturns ==
    /\ stage = "returns"
    /\ rets' = rets + 1
    /\ stage' = IF rets + 1 = Cardinality(Augmented) THEN "adjust"
                ELSE "returns"
    /\ UNCHANGED <<files, computation_vars>>

NextCreatecps ==
    \/ CheckInputs
    \/ ReadAugmented
    \/ ReadRaw
    \/ ConvertDat
    \/ MergeBenefits
    \/ BuildReturns

SpecCreatecps == InitCreatecps /\ [][NextCreatecps]_vars

\* no form of the inputs is complete
NoCompleteForm ==
    /\ ~(Augmented \subseteq files)
    /\ ~(RawRead \subseteq files)
    /\ ~(Dat \subseteq files)

HeadsFoldedUnit(p) ==
    \E k \in Units : HeadOf(k) = p /\ ~Surviving(k) /\ house_units[k].ifdept

SlotNamesDependent(k, i) ==
    LET u == house_units[k]
    IN /\ i \in DOMAIN u.dep /\ i \in DOMAIN u.depage
       /\ u.dep[i] \in 0..(Len(house) - 1)
       /\ LET p == u.dep[i] + 1
          IN /\ p # HeadOf(k)
             /\ ~(HasSpouse(k) /\ SpouseOf(k) = p)
             /\ house[p].d_flag \/ HeadsFoldedUnit(p)
             /\ u.depage[i] = house[p].a_age

C14_SlotsNameDependents ==
    \A k \in Units : \A i \in 1..house_units[k].depne :
        SlotNamesDependent(k, i)

(***************************************************************************)
(* C15: no unit is the source of convert() twice.  search() clears the     *)
(* source's t_flag right before each convert() and nothing sets it again,  *)
(* so a source whose t_flag is already false has been converted before.    *)
(***************************************************************************)
C15_ConvertedOnce ==
    [][ConvertStep => house_units[scan_ix + 1].t_flag]_vars

(***************************************************************************)
(* The record a step of output() has just appended                         *)
(***************************************************************************)
Emitted == Emit /\ Len(tax_units') = Len(tax_units) + 1
\* to be read in the state after an Emitted step
LastRecord(t) == t[Len(t)]

\* the Age Classifier applied from zero to the head, to the spouse of a
\* joint unit and to each dependent looked up by its slot
RECURSIVE CountDependents(_, _, _, _)
CountDependents(counts, unit, h, i) ==
    IF i > unit.depne THEN counts
    ELSE CountDependents(
             check_age(counts, PyAt(h, unit.dep[i]).a_age, TRUE),
             unit, h, i + 1)

FreshCounts(unit, h) ==
    LET zero == [c \in Counters |-> 0]
        head == check_age(zero, unit.ageh, FALSE)
        both == IF unit.js = 2 THEN check_age(head, unit.ages, FALSE)
                ELSE head
    IN CountDependents(both, unit, h, 1)

(***************************************************************************)
(* C16: a record emitted through the reset path carries, in each of its    *)
(* ten age and credit counters, the value counted from zero over the       *)
(* head, the spouse of a joint unit and the dependents.                    *)
(***************************************************************************)
C16_ResetRecounts ==
    [][Emitted =>
        (LastRecord(tax_units').eflag =>
            \A c \in Counters :
                LastRecord(tax_units')[c]
                    = FreshCounts(house_units[idx], house)[c])]_vars

(***************************************************************************)
(* C17: in every emitted record the person count xxtot equals the sum of   *)
(* the age-bracket counters nu18 + n1820 + n21.                            *)
(***************************************************************************)
C17_CountMatchesBrackets ==
    \A j \in 1..Len(tax_units) :
        tax_units[j].xxtot
            = tax_units[j].nu18 + tax_units[j].n1820 + tax_units[j].n21

\* the head-of-household test of lines 762-766 for the unit at position u
HohEligible(hu, u) ==
    /\ HouseholdIncome(hu) > 0
    /\ hu[u].js = 1
    /\ 100 * totincx(hu[u]) > 99 * HouseholdIncome(hu)
    /\ hu[u].ifdept # TRUE
    /\ hu[u].depne > 0

(***************************************************************************)
(* C18: when the driver reaches the head-of-household pass, hhstatus       *)
(* called on any unit of the household decides on that unit and changes    *)
(* only it: its js becomes 3 exactly when the household income is          *)
(* positive, the unit is single, holds more than 99% of the household      *)
(* income, is not a dependent filer and has a dependent; the js of every   *)
(* other unit stays as it was.                                             *)
(***************************************************************************)
C18_HhstatusOwnUnit ==
    pc = "hh" =>
        \A k \in 0..(Len(house_units) - 1) :
            LET after == hhstatus(house_units, k)
            IN /\ \A j \in Units :
                      j # k + 1 => after[j].js = house_units[j].js
               /\ after[k + 1].js
                      = IF HohEligible(house_units, k + 1) THEN 3
                        ELSE house_units[k + 1].js

\* the unit at position u as the head-of-household test sees a single unit
AsSingle(hu, u) == [hu EXCEPT ![u].js = 1]

(***************************************************************************)
(* C19: the head-of-household evaluation reaches every unit before it is   *)
(* emitted: whenever a record is emitted for a unit that is single or      *)
(* head of household, is not a dependent filer, has a dependent and holds  *)
(* more than 99% of a positive household income, the record has js = 3     *)
(* and the filing flag computed for the unit under js = 3.                 *)
(***************************************************************************)
C19_HohAppliedToAll ==
    [][Emitted =>
        ((/\ house_units[idx].js \in {1, 3}
          /\ HohEligible(AsSingle(house_units, idx), idx))
            => /\ LastRecord(tax_units').js = 3
               /\ LastRecord(tax_units').filst
                      = output([house_units[idx] EXCEPT !.js = 3],
                               house).filst)]_vars

\* person p is the head of one of the household's constructed units
HeadsUnit(p) == \E k \in Units : HeadOf(k) = p.a_lineno
\* the income of the members named in slots 1..depne of the unit, ten
\* streams each, without those who head a unit
DependentsIncome(unit, h) ==
    SumSeq([i \in 1..unit.depne |->
               IF HeadsUnit(PyAt(h, unit.dep[i])) THEN 0
               ELSE PersonIncome(PyAt(h, unit.dep[i]))],
           unit.depne)

(***************************************************************************)
(* C20: a record emitted for a unit with dependents carries in zdepin the  *)
(* sum, over all its dependent slots, of the dependent's income with each  *)
(* stream counted once, dependents who head a constructed unit left out.   *)
(***************************************************************************)
C20_DependentIncomeTotal ==
    [][Emitted =>
        (house_units[idx].depne > 0 =>
            LastRecord(tax_units').zdepin
                = DependentsIncome(house_units[idx], house))]_vars

\* lines 913-915: the person is a child of the reference person, young
\* enough or enrolled
QualifyingChild(person, record) ==
    /\ (person.a_exprrp = 5 \/ relation(person, record) = -1)
    /\ (person.a_age <= 18 \/ (person.a_age <= 23 /\ person.a_enrlw > 0))

\* lines 917-924: the support test, on the income ifdept computed
SupportTest(person, record) ==
    IF totincx(record) + ifdept_income(person) > 0
    THEN 2 * ifdept_income(person) < totincx(record) + ifdept_income(person)
    ELSE TRUE

(***************************************************************************)
(* C21: for a candidate who is not a qualifying child, ifdept returns true *)
(* exactly when the sum of the ten income streams, each counted once, is   *)
(* at most 2500 and the support test passes.                               *)
(***************************************************************************)
C21_IncomeTestAggregate ==
    (/\ pc = "ifdept"
     /\ Len(calls) > 0
     /\ ~QualifyingChild(house[1], house_units[1]))
        => calls[1] = (/\ PersonIncome(house[1]) <= 2500
                       /\ SupportTest(house[1], house_units[1]))

\* the two quantities the support test compares, for the pair under test
CandidateIncome == ifdept_income(house[1])
SupportSum == totincx(house_units[1]) + CandidateIncome
IfdeptReturned == pc = "ifdept" /\ Len(calls) > 0

(***************************************************************************)
(* C22, as stated: ifdept returns true only when the person's income is    *)
(* strictly less than half of (unit's total income + person's income) or   *)
(* that sum is exactly zero; in every other case, a negative sum           *)
(* included, it returns false.                                             *)
(***************************************************************************)
C22_SupportTwoCases ==
    (IfdeptReturned /\ calls[1])
        => (2 * CandidateIncome < SupportSum \/ SupportSum = 0)

(***************************************************************************)
(* C22, amended: the support test passes exactly when the sum is zero or   *)
(* negative, or the sum is positive and the person's income is strictly    *)
(* less than half of it.  When it fails ifdept returns false; when it      *)
(* passes ifdept returns what the income test decides.                     *)
(***************************************************************************)
C22_SupportNonPositiveSum ==
    IfdeptReturned =>
        LET passes == \/ SupportSum <= 0
                      \/ 2 * CandidateIncome < SupportSum
        IN /\ ~passes => ~calls[1]
           /\ passes =>
                 (calls[1] = (\/ CandidateIncome <= 2500
                              \/ QualifyingChild(house[1], house_units[1])))

\* ifdept returned true on a negative sum
C22_NegativeSumPasses == IfdeptReturned /\ SupportSum < 0 /\ calls[1]

(***************************************************************************)
(* filst() on its own: units as output() passes them, over the filing      *)
(* statuses, the counts of filers aged 65 or more, dependent counts, and   *)
(* wage, pension and business amounts on both sides of the thresholds.     *)
(***************************************************************************)
FilstUnit(js, agede, depne, was, pensions, bil, dept) ==
    [NewUnit(MkPerson(Profile(IF agede > 0 THEN 70 ELSE 40, was, 0, bil, 0,
                              1, 2),
                      1, 1, 1, 1, 7, 0))
        EXCEPT !.js = js, !.agede = agede, !.depne = depne,
               !.pensions = pensions, !.ifdept = dept]

\* agede counts the head and, in a joint unit, the spouse
FilstStatuses == {<<1, 0>>, <<1, 1>>, <<2, 0>>, <<2, 1>>, <<2, 2>>,
                  <<3, 0>>, <<3, 1>>}

InitFilst ==
    /\ \E st \in FilstStatuses, depne \in 0..2, was \in {0, 500},
          pensions \in {0, 7000, 10000, 14000}, bil \in {0, -1000},
          dept \in BOOLEAN :
          house_units = <<FilstUnit(st[1], st[2], depne, was, pensions, bil,
                                    dept)>>
    /\ house = <<>>
    /\ nunits = 1
    /\ tax_units = <<>>
    /\ pc = "filst"
    /\ idx = 1
    /\ idxhigh = 0
    /\ highest = 0
    /\ scan_ix = 0
    /\ convert1 = FALSE
    /\ run = 1
    /\ Inside

\* one call self.filst(unit); filst reads its argument and assigns locals
FilstCall ==
    /\ pc = "filst"
    /\ Len(calls) < MaxCalls
    /\ calls' = Append(calls, filst(house_units[1]))
    /\ UNCHANGED <<house, house_units, nunits, tax_units, pc, idx, idxhigh,
                   highest, scan_ix, convert1, run, files, stage, rets>>

SpecFilst == InitFilst /\ [][FilstCall]_vars

FilstReturned == pc = "filst" /\ Len(calls) > 0
\* the unit has negative business, farm or rental income
NegativeIncome(unit) == unit.bil < 0 \/ unit.fil < 0 \/ unit.rents < 0

(***************************************************************************)
(* C23: filst returns 1 for every unit with negative business, farm or     *)
(* rental income, whatever its status, ages, income and dependents.        *)
(***************************************************************************)
C23_NegativeIncomeFiles ==
    (FilstReturned /\ NegativeIncome(house_units[1])) => calls[1] = 1

\* the gross income filst compares, and what the comparison is made with
\* when every status and age case subtracts the dependents' exemptions
FilstIncome(unit) ==
    unit.was + unit.intst + unit.dbe + unit.alimony + unit.bil
    + unit.pensions + unit.rents + unit.fil + unit.ucomp
BaseAmount(unit) ==
    CASE unit.js = 1 -> IF unit.agede # 0 THEN single65 ELSE single
      [] unit.js = 2 -> IF unit.agede = 1 THEN joint65one
                        ELSE IF unit.agede = 2 THEN joint65both ELSE joint
      [] unit.js = 3 -> IF unit.agede # 0 THEN hoh65 ELSE hoh
WageTest(unit) ==
    CASE unit.js = 1 -> unit.was >= wage1
      [] unit.js = 2 -> IF unit.depne > 0 THEN unit.was >= wage2
                        ELSE unit.was >= wage2nk
      [] unit.js = 3 -> unit.was >= wage3

(***************************************************************************)
(* C24: for every filing status and age case the gross-income threshold    *)
(* is the base amount minus depne * 3950: a unit that no other test        *)
(* decides (wage test failed, not a dependent filer, no negative income)   *)
(* is a filer exactly when its income reaches that amount.                 *)
(***************************************************************************)
C24_ThresholdLessExemptions ==
    (/\ FilstReturned
     /\ ~WageTest(house_units[1])
     /\ ~house_units[1].ifdept
     /\ ~NegativeIncome(house_units[1]))
        => ((calls[1] = 1)
              = (FilstIncome(house_units[1])
                   >= BaseAmount(house_units[1])
                        - house_units[1].depne * depExempt))

\* the conditions for folding the unit at 0-based position ix into the
\* unit at idxh, on the household's units as they are
MayFold(hu, ix, idxh) ==
    /\ ix # idxh
    /\ ~UnitAt(hu, ix).ifdept
    /\ ~UnitAt(hu, idxh).ifdept
    /\ totincx(UnitAt(hu, idxh)) > 0
    /\ UnitAt(hu, ix).js # 2
    /\ \/ /\ UnitAt(hu, ix).ftype \in {1, 3, 5}
          /\ totincx(UnitAt(hu, ix)) <= 3000
       \/ UnitAt(hu, ix).relcode = 11

(***************************************************************************)
(* C25: whenever reconciliation clears a unit's t_flag and applies         *)
(* convert to it, at that moment the unit is not the top unit, is not      *)
(* already a dependent, the top unit is not a dependent and has positive   *)
(* income, the unit is not joint, and its family type is 1, 3 or 5 with    *)
(* income at most 3000 or its relationship code is 11; and no step clears  *)
(* the t_flag of a joint unit.                                             *)
(***************************************************************************)
C25_FoldOnlyWhenAllowed ==
    [][/\ ConvertStep => MayFold(house_units, scan_ix, idxhigh)
       /\ \A k \in Units :
             (/\ house_units[k].js = 2
              /\ house_units[k].t_flag
              /\ k <= Len(house_units'))
                 => house_units'[k].t_flag]_vars

\* unit t has the maximum total income of the household's units, and no
\* later unit has as much
LastMaximum(t) ==
    \A k \in Units :
        /\ totincx(house_units[k]) <= totincx(house_units[t])
        /\ k > t => totincx(house_units[k]) < totincx(house_units[t])
\* the unit that a fold step gives dependents to
FoldTarget(t) == house_units'[t].depne > house_units[t].depne

(***************************************************************************)
(* C26: every fold of search() adds its dependents to one unit, the unit   *)
(* of maximum total income among all units of house_units, folded or       *)
(* dependent ones included, and among several of that income the last in   *)
(* construction order.                                                     *)
(***************************************************************************)
C26_TargetIsLastMaximum ==
    [][ConvertStep =>
        /\ \E t \in Units : FoldTarget(t)
        /\ \A t \in Units : FoldTarget(t) => LastMaximum(t)]_vars

\* a unit was folded into the later of two units of the same, top income
C26_FoldedIntoLaterOfEquals ==
    /\ pc = "scan_rel"
    /\ ~UnitAt(house_units, scan_ix).t_flag
    /\ UnitAt(house_units, idxhigh).depne > 0
    /\ \E k \in Units :
          /\ k - 1 < idxhigh
          /\ totincx(house_units[k]) = totincx(UnitAt(house_units, idxhigh))

(***************************************************************************)
(* convert() on its own, as search() first calls it in a family household  *)
(* of a primary family (a head with high wages, with or without a child)   *)
(* followed by a related sub-family (a head with income of at most 500     *)
(* and up to two children): the units are those the driver has built when  *)
(* the sub-family's head has been created.                                 *)
(***************************************************************************)
ChildAges == {5, 10}
\* the children of a family, in line-number order
Children == {<<>>} \cup {<<a>> : a \in ChildAges}
            \cup {<<a, b>> : a \in ChildAges, b \in ChildAges}

ConvertHouse(tw, own, sub, kids) ==
    LET n == 2 + Len(own) + Len(kids)
        s == 2 + Len(own)
    IN <<MkPerson(Profile(40, tw, 0, 0, 0, 1, 1), 1, n, 1, 1, 7, 0)>>
       \o [i \in 1..Len(own) |->
              MkPerson(Profile(own[i], 0, 0, 0, 0, 5, 1), 1 + i, n, 1, 1, 7,
                       0)]
       \o <<MkPerson(sub, s, n, 1, 2, 7, 0)>>
       \o [i \in 1..Len(kids) |->
              MkPerson(Profile(kids[i], 0, 0, 0, 0, 7, 3), s + i, n, 1, 2, 7,
                       0)]

\* lines 105-112: the units created for the members 1..last, in order
RECURSIVE Built(_, _, _, _)
Built(i, last, h, hu) ==
    IF i > last THEN [house |-> h, units |-> hu]
    ELSE IF not_flagged(h[i])
         THEN Built(i + 1, last, create(i, h).house,
                    Append(hu, create(i, h).unit))
         ELSE Built(i + 1, last, h, hu)

InitConvert ==
    /\ \E tw \in {20000, 40000}, own \in {<<>>, <<5>>}, kids \in Children,
          sub \in {Profile(40, w, i, 0, 0, r, 3) :
                      w \in {0, 500}, i \in {0, 500}, r \in {5, 11}} :
          LET made == Built(1, 2 + Len(own), ConvertHouse(tw, own, sub, kids),
                            <<>>)
          IN /\ house = made.house
             /\ house_units = made.units
             /\ nunits = Len(made.units)
             /\ idxhigh = Top(made.units).idxhigh
             /\ highest = Top(made.units).highest
    /\ scan_ix = 1
    /\ tax_units = <<>>
    /\ pc = "convert"
    /\ idx = 1
    /\ convert1 = FALSE
    /\ run = 1
    /\ Inside

\* lines 1063-1068: unit['t_flag'] = False and the first
\* self.convert(ix, idxhigh) of search()
ConvertCall ==
    /\ pc = "convert"
    /\ FoldsAtFtype
    /\ house_units' = fold(house_units, scan_ix, idxhigh)
    /\ pc' = "converted"
    /\ UNCHANGED <<house, nunits, tax_units, idx, idxhigh, highest, scan_ix,
                   convert1, run, outside>>

SpecConvert == InitConvert /\ [][ConvertCall]_vars

\* slots 1..n of the unit are all present
SlotsDefined(unit, n) ==
    \A i \in 1..n : i \in DOMAIN unit.dep /\ i \in DOMAIN unit.depage

(***************************************************************************)
(* C27: convert(ix, iy) with a single-filer source holding k dependents    *)
(* and a target holding m leaves the source with depne 0 and the target    *)
(* with depne m + k + 1 and slots 1..m+k+1 all defined: slots 1..m as they *)
(* were, slot m+1 the source's head with its age, slots m+2..m+k+1 the     *)
(* source's former slots 1..k in order, with their ages.                   *)
(***************************************************************************)
C27_ConvertAppendsSlots ==
    [][ConvertCall =>
        LET src == UnitAt(house_units, scan_ix)
            tgt == UnitAt(house_units, idxhigh)
            src2 == UnitAt(house_units', scan_ix)
            tgt2 == UnitAt(house_units', idxhigh)
            k == src.depne
            m == tgt.depne
        IN /\ src2.depne = 0
           /\ tgt2.depne = m + k + 1
           /\ SlotsDefined(tgt2, m + k + 1)
           /\ \A i \in 1..m :
                 tgt2.dep[i] = tgt.dep[i] /\ tgt2.depage[i] = tgt.depage[i]
           /\ tgt2.dep[m + 1] = src.a_lineno - 1
           /\ tgt2.depage[m + 1] = src.ageh
           /\ \A i \in 1..k :
                 /\ tgt2.dep[m + 1 + i] = src.dep[i]
                 /\ tgt2.depage[m + 1 + i] = src.depage[i]]_vars

(***************************************************************************)
(* computation() on a family household of an earner followed by up to      *)
(* MaxOthers adults of low income, each a family of their own: every one   *)
(* of them is created as a unit and folded into the earner's by search().  *)
(***************************************************************************)
FoldProfiles ==
    {Profile(40, 0, 500, 0, 0, 1, 1),     \* folded by family type
     Profile(40, 0, 500, 0, 0, 11, 1),    \* relationship 11 as well
     Profile(40, 500, 0, 0, 0, 1, 2)}     \* not folded

InitFold ==
    /\ Start
    /\ Inside
    /\ \E n \in 1..MaxOthers, p \in FoldProfiles :
          house = <<MkPerson(Profile(40, 40000, 0, 0, 0, 1, 2), 1, n + 1, 1,
                             1, 7, 0)>>
                  \o [i \in 1..n |->
                         MkPerson(p, i + 1, n + 1, 1, i + 1, 7, 0)]

NextFold ==
    \/ Dispatch
    \/ FamilyCreate
    \/ MustFileSkip
    \/ SearchNotCalled
    \/ SearchBegin
    \/ SearchFoldFtype
    \/ SearchKeepFtype
    \/ SearchFoldRelcode
    \/ SearchKeepRelcode
    \/ HhstatusMap
    \/ Emit
    \/ EmitSkip

SpecFold == InitFold /\ [][NextFold]_vars

\* the unit a create() step appended
Created(hu) == hu[Len(hu)]

(***************************************************************************)
(* C28: a unit leaves create() with ben_number = 3 plus one per dependent  *)
(* attached, a fold adds the source's ben_number - 1 to the target's, and  *)
(* no unit's ben_number ever exceeds 16 or has a benefit pair at a         *)
(* position above 15.                                                      *)
(***************************************************************************)
C28_BenefitSlotsWithin15 ==
    [][/\ (CreateCalled /\ Len(house_units') > Len(house_units))
            => Created(house_units').ben_number
                 = 3 + Created(house_units').depne
       /\ ConvertStep
            => UnitAt(house_units', idxhigh).ben_number
                 = UnitAt(house_units, idxhigh).ben_number
                   + UnitAt(house_units, scan_ix).ben_number - 1
       /\ \A k \in 1..Len(house_units') :
             /\ house_units'[k].ben_number <= NSlots + 1
             /\ \A pos \in DOMAIN house_units'[k].slots : pos <= NSlots]_vars

(***************************************************************************)
(* check_age() on its own: the unit of a head drawn from the profiles,     *)
(* and calls with ages on both sides of every bracket, for a dependent     *)
(* and for a filer.                                                        *)
(***************************************************************************)
CheckedAges == {0, 1, 5, 6, 13, 14, 17, 18, 20, 21, 64, 65}

InitCheckAge ==
    /\ \E p \in Profiles :
          house_units = <<NewUnit(MkPerson(p, 1, 1, 1, 1, 7, 0))>>
    /\ house = <<>>
    /\ nunits = 1
    /\ tax_units = <<>>
    /\ pc = "check_age"
    /\ idx = 1
    /\ idxhigh = 0
    /\ highest = 0
    /\ scan_ix = 0
    /\ convert1 = FALSE
    /\ run = 1
    /\ Inside

\* one call self.check_age(record, age, dependent); calls keeps the
\* arguments it was made with
CheckAgeCall ==
    /\ pc = "check_age"
    /\ Len(calls) < MaxCalls
    /\ \E age \in CheckedAges, dependent \in BOOLEAN :
          /\ house_units' = <<check_age(house_units[1], age, dependent)>>
          /\ calls' = Append(calls, [age |-> age, dependent |-> dependent])
    /\ UNCHANGED <<house, nunits, tax_units, pc, idx, idxhigh, highest,
                   scan_ix, convert1, run, files, stage, rets>>

SpecCheckAge == InitCheckAge /\ [][CheckAgeCall]_vars

\* what the call of the step added to counter c
Added(c) == house_units'[1][c] - house_units[1][c]
One(b) == IF b THEN 1 ELSE 0

(***************************************************************************)
(* C29: a call of check_age changes nothing but counters of the record     *)
(* passed; for age <= 0 nothing; for age > 0 exactly one of nu18 (1-17),   *)
(* n1820 (18-20), n21 (21 or more) grows by one; and only for a dependent  *)
(* EIC, nu18_dep and n24 grow by one for ages 1-17, nu05 for ages 1-5,     *)
(* nu13 and f2441 for ages 6-13, elderly_dependent for ages 65 or more.    *)
(***************************************************************************)
C29_CheckAgeBrackets ==
    [][CheckAgeCall =>
        LET age == LastRecord(calls').age
            dep == LastRecord(calls').dependent
            record == house_units[1]
        IN /\ house' = house /\ tax_units' = tax_units
           /\ DOMAIN house_units'[1] = DOMAIN record
           /\ \A f \in DOMAIN record \ Counters :
                 house_units'[1][f] = record[f]
           /\ age <= 0 => house_units'[1] = record
           /\ Added("nu18") = One(1 <= age /\ age <= 17)
           /\ Added("n1820") = One(18 <= age /\ age <= 20)
           /\ Added("n21") = One(age >= 21)
           /\ Added("EIC") = One(dep /\ 1 <= age /\ age <= 17)
           /\ Added("nu18_dep") = One(dep /\ 1 <= age /\ age <= 17)
           /\ Added("n24") = One(dep /\ 1 <= age /\ age <= 17)
           /\ Added("nu05") = One(dep /\ 1 <= age /\ age <= 5)
           /\ Added("nu13") = One(dep /\ 6 <= age /\ age <= 13)
           /\ Added("f2441") = One(dep /\ 6 <= age /\ age <= 13)
           /\ Added("elderly_dependent") = One(dep /\ age >= 65)]_vars

\* calls were made for a dependent aged 65 and for a person of age 0
C29_ElderlyAndZeroChecked ==
    /\ pc = "check_age"
    /\ \E i \in 1..Len(calls) : calls[i].age = 65 /\ calls[i].dependent
    /\ \E i \in 1..Len(calls) : calls[i].age = 0

\* a step in which create() returned a unit
UnitCreated == CreateCalled /\ Len(house_units') = Len(house_units) + 1

(***************************************************************************)
(* C30: within one household no step takes a person's d_flag or s_flag     *)
(* back to false, and the dependents create() attaches to the unit it      *)
(* builds are members who were not flagged dependents before, each         *)
(* attached once and flagged by the step: a member is attached by addept   *)
(* at most once.                                                           *)
(***************************************************************************)
C30_AddeptOncePerPerson ==
    [][/\ \A p \in Persons :
             /\ house[p].d_flag => house'[p].d_flag
             /\ house[p].s_flag => house'[p].s_flag
       /\ UnitCreated =>
             LET unit == Created(house_units')
             IN \A i \in 1..unit.depne :
                    /\ ~HouseAt(house, unit.dep[i]).d_flag
                    /\ HouseAt(house', unit.dep[i]).d_flag
                    /\ \A j \in 1..unit.depne :
                          j # i => unit.dep[j] # unit.dep[i]]_vars

\* a member flagged dependent and held by one unit was passed over by a
\* unit of the same family created later
C30_PassedOverLater ==
    \E p \in Persons : \E k \in Units : \E k2 \in Units :
        /\ k2 > k
        /\ house[p].d_flag
        /\ HoldsDependent(k, p)
        /\ ~HoldsDependent(k2, p)
        /\ house_units[k2].xfid = house[p].ffpos
        /\ HeadOf(k2) # p
        /\ ~house_units[k].ifdept /\ ~house_units[k2].ifdept
====
